---- MODULE Spec2Model ----
(***************************************************************************)
(* A model of borganiser.py: the cursor-based BibTeX scanner, the entry    *)
(* and document parsers, the two sort transforms, the serializer and the   *)
(* command-line pipeline.                                                  *)
(*                                                                         *)
(* Text is a sequence of one-character strings.  Cursors are 0-based, as   *)
(* in the source: At(s, i) is Python's s[i].  A Python exception is a      *)
(* result record with ok = FALSE: an index at or past the end of the text  *)
(* raises IndexError, exactly where the source dereferences source[i].     *)
(***************************************************************************)
EXTENDS Integers, Sequences, FiniteSets, Bags, TLC

VARIABLES
    argv,       \* the set of option flags on the command line
    source,     \* the text handed to BibtexDocument
    pc,         \* position in the pipeline
    i,          \* BibtexDocument.__init__: cursor into source
    entries,    \* BibtexDocument.__init__: self.entries so far
    type,       \* the type tag of the entry under construction
    esource,    \* BibtexEntry.__init__: the entry body (its source)
    ei,         \* BibtexEntry.__init__: cursor into esource
    name,       \* BibtexEntry.__init__: self.name
    fields,     \* BibtexEntry.__init__: self.fields so far
    key,        \* BibtexEntry.__init__: key of the field being read
    value,      \* BibtexEntry.__init__: raw value of the field being read
    document,   \* __main__: the document variable
    stdout,     \* the texts printed so far
    err,        \* the exception that ended the run, if any
    result,     \* scanner harness: the value a direct scanner call returned
    call,       \* scanner harness: the arguments of that call
    serial,     \* round-trip harness: the serializations made so far
    ops,        \* sort harness: the transforms applied so far
    prev        \* sort harness: the entries before the last transform

vars == <<argv, source, pc, i, entries, type, esource, ei, name, fields, key,
          value, document, stdout, err, result, call, serial, ops, prev>>

-----------------------------------------------------------------------------
(* Characters *)

BLOCK_START == "{"
BLOCK_END == "}"
LIST_SEP == ","
QUOTE == "\""

\* str.isspace() on the characters the model uses
isspace(c) == c \in {" ", "\n"}

\* Unicode code points, the order Python compares strings by
CodePoint(c) ==
    CASE c = "\n" -> 10  [] c = " " -> 32  [] c = "\"" -> 34 [] c = "," -> 44
      [] c = "0" -> 48   [] c = "1" -> 49  [] c = "2" -> 50  [] c = "3" -> 51
      [] c = "4" -> 52
      [] c = "=" -> 61   [] c = "@" -> 64
      [] c = "A" -> 65   [] c = "B" -> 66  [] c = "S" -> 83
      [] c = "a" -> 97   [] c = "b" -> 98  [] c = "c" -> 99  [] c = "d" -> 100
      [] c = "e" -> 101  [] c = "h" -> 104 [] c = "i" -> 105 [] c = "j" -> 106
      [] c = "k" -> 107  [] c = "l" -> 108 [] c = "m" -> 109 [] c = "n" -> 110
      [] c = "o" -> 111  [] c = "r" -> 114 [] c = "s" -> 115
      [] c = "t" -> 116  [] c = "u" -> 117 [] c = "v" -> 118 [] c = "w" -> 119
      [] c = "x" -> 120  [] c = "y" -> 121
      [] c = "{" -> 123  [] c = "}" -> 125

\* str.lower() of one character
LowerChar(c) ==
    CASE c = "A" -> "a" [] c = "B" -> "b" [] c = "S" -> "s" [] OTHER -> c

At(s, n) == s[n + 1]

-----------------------------------------------------------------------------
(* Results of a scan: a value and the index after it, or an exception *)

Return(buffer, n) ==
    [ok |-> TRUE, buffer |-> buffer, i |-> n, kind |-> "None", char |-> "None"]

Raise(kind, char, n) ==
    [ok |-> FALSE, buffer |-> <<>>, i |-> n, kind |-> kind, char |-> char]

NoError == [kind |-> "None", char |-> "None", at |-> -1]

Error(r) == [kind |-> r.kind, char |-> r.char, at |-> r.i]

-----------------------------------------------------------------------------
(* Scanner primitives *)

RECURSIVE skip_whitespace(_, _)
skip_whitespace(src, start) ==
    IF start < Len(src) /\ isspace(At(src, start))
    THEN skip_whitespace(src, start + 1)
    ELSE start

\* (mutant) nested delimiters are kept only when include_delimiters is set
RECURSIVE BlockLoop_DropNested(_, _, _, _, _)
BlockLoop_DropNested(src, n, level, buffer, include_delimiters) ==
    IF level <= 0 THEN Return(buffer, n)
    ELSE IF n >= Len(src) THEN Raise("IndexError", "None", n)
    ELSE LET c == At(src, n) IN
         IF c \in {BLOCK_START, BLOCK_END}
         THEN LET lv == IF c = BLOCK_START THEN level + 1 ELSE level - 1 IN
              BlockLoop_DropNested(src, n + 1, lv,
                                   IF include_delimiters /\ lv > 0
                                   THEN Append(buffer, c) ELSE buffer,
                                   include_delimiters)
         ELSE BlockLoop_DropNested(src, n + 1, level, Append(buffer, c),
                                   include_delimiters)

\* The while loop of read_next_block: one character per iteration.
RECURSIVE BlockLoop(_, _, _, _, _)
BlockLoop(src, n, level, buffer, include_delimiters) ==
    IF level <= 0 THEN Return(buffer, n)
    ELSE IF n >= Len(src) THEN Raise("IndexError", "None", n)
    ELSE LET c == At(src, n) IN
         IF c \in {BLOCK_START, BLOCK_END}
         THEN LET lv == IF c = BLOCK_START THEN level + 1 ELSE level - 1 IN
              BlockLoop(src, n + 1, lv,
                        IF include_delimiters \/ lv > 0
                        THEN Append(buffer, c) ELSE buffer,
                        include_delimiters)
         ELSE BlockLoop(src, n + 1, level, Append(buffer, c),
                        include_delimiters)

read_next_block(src, start, include_delimiters) ==
    LET n == skip_whitespace(src, start) IN
    IF n >= Len(src) THEN Raise("IndexError", "None", n)
    ELSE IF At(src, n) # BLOCK_START
         THEN Raise("SyntaxError", At(src, n), n)
         ELSE BlockLoop(src, n + 1, 1, <<>>, include_delimiters)

\* The loop of a quoted literal: up to the next double quote.
RECURSIVE QuotedLoop(_, _, _)
QuotedLoop(src, n, buffer) ==
    IF n >= Len(src) THEN Raise("IndexError", "None", n)
    ELSE IF At(src, n) = QUOTE THEN Return(buffer, n + 1)
    ELSE QuotedLoop(src, n + 1, Append(buffer, At(src, n)))

\* The loop of a standalone value: up to a separator, a block end or space.
RECURSIVE BareLoop(_, _, _)
BareLoop(src, n, buffer) ==
    IF n >= Len(src) THEN Raise("IndexError", "None", n)
    ELSE IF At(src, n) \in {LIST_SEP, BLOCK_END} \/ isspace(At(src, n))
         THEN Return(buffer, n)
         ELSE BareLoop(src, n + 1, Append(buffer, At(src, n)))

read_next_value(src, start, include_delimiters) ==
    LET n == skip_whitespace(src, start) IN
    IF n >= Len(src) THEN Raise("IndexError", "None", n)
    ELSE IF At(src, n) = BLOCK_START
         THEN read_next_block(src, start, include_delimiters)
    ELSE IF At(src, n) = QUOTE
         THEN QuotedLoop(src, n + 1, <<>>)
         ELSE BareLoop(src, n, <<>>)

\* The accumulate-until loops of the parsers (type, name, key).
RECURSIVE ReadUntil(_, _, _, _)
ReadUntil(src, n, stop, buffer) ==
    IF n >= Len(src) THEN Raise("IndexError", "None", n)
    ELSE IF At(src, n) = stop THEN Return(buffer, n)
    ELSE ReadUntil(src, n + 1, stop, Append(buffer, At(src, n)))

\* str.strip()
RECURSIVE lstrip(_)
lstrip(s) == IF s # <<>> /\ isspace(Head(s)) THEN lstrip(Tail(s)) ELSE s

RECURSIVE rstrip(_)
rstrip(s) ==
    IF s # <<>> /\ isspace(s[Len(s)])
    THEN rstrip(SubSeq(s, 1, Len(s) - 1)) ELSE s

strip(s) == rstrip(lstrip(s))

\* str.lower()
lower(s) == [k \in 1..Len(s) |-> LowerChar(s[k])]

-----------------------------------------------------------------------------
(* Serializer *)

\* sep.join(parts)
RECURSIVE join(_, _)
join(sep, parts) ==
    IF parts = <<>> THEN <<>>
    ELSE IF Len(parts) = 1 THEN parts[1]
    ELSE parts[1] \o sep \o join(sep, Tail(parts))

FieldSep == <<",", "\n", " ", " ">>

FieldToBibtex(f) == f.key \o <<"=", "{">> \o f.value \o <<"}">>

EntryToBibtex(e) ==
    <<"@">> \o lower(e.type) \o <<"{">> \o e.name \o FieldSep
      \o join(FieldSep, [k \in 1..Len(e.fields) |-> FieldToBibtex(e.fields[k])])
      \o <<"\n", "}">>

DocumentToBibtex(es) ==
    join(<<"\n", "\n">>, [k \in 1..Len(es) |-> EntryToBibtex(es[k])])

-----------------------------------------------------------------------------
(* Sort transforms: list.sort(key=...) is a stable sort on "<" of the keys *)

\* a < b on Python strings: lexicographic on code points
RECURSIVE StrLess(_, _)
StrLess(a, b) ==
    IF b = <<>> THEN FALSE
    ELSE IF a = <<>> THEN TRUE
    ELSE IF Head(a) = Head(b) THEN StrLess(Tail(a), Tail(b))
    ELSE CodePoint(Head(a)) < CodePoint(Head(b))

\* (mutant) x goes before the elements equal to it: an unstable sort
RECURSIVE InsertOn_Unstable(_, _, _)
InsertOn_Unstable(s, x, attr) ==
    IF s = <<>> THEN <<x>>
    ELSE IF ~StrLess(s[Len(s)][attr], x[attr])
         THEN Append(InsertOn_Unstable(SubSeq(s, 1, Len(s) - 1), x, attr),
                     s[Len(s)])
         ELSE Append(s, x)

\* x goes after every element of the sorted list s that is not greater
RECURSIVE InsertOn(_, _, _)
InsertOn(s, x, attr) ==
    IF s = <<>> THEN <<x>>
    ELSE IF StrLess(x[attr], s[Len(s)][attr])
         THEN Append(InsertOn(SubSeq(s, 1, Len(s) - 1), x, attr), s[Len(s)])
         ELSE Append(s, x)

\* (The sorted front is bound once, as the value of its one-element set.)
RECURSIVE SortOn(_, _)
SortOn(s, attr) ==
    IF s = <<>> THEN <<>>
    ELSE CHOOSE r \in {InsertOn(front, s[Len(s)], attr) :
                          front \in {SortOn(SubSeq(s, 1, Len(s) - 1), attr)}} :
            TRUE

\* BibtexEntry.sort_fields
EntrySortFields(e) == [e EXCEPT !.fields = SortOn(e.fields, "key")]

\* BibtexDocument.sort_entries
sort_entries(es) == SortOn(es, "name")

\* BibtexDocument.sort_fields
sort_fields(es) == [k \in 1..Len(es) |-> EntrySortFields(es[k])]

-----------------------------------------------------------------------------
(* Input texts *)

MaxBody == 4        \* tokens after the entry opening, in BodyTexts
MaxLead == 4        \* tokens of a top-level text, in TopTexts
MaxFieldToks == 4   \* tokens of a field list, in FieldTexts
MaxValLen == 4      \* characters of a brace-delimited value, in NestTexts
MaxEntries == 3     \* entries of a document, in SortTexts

\* every concatenation of at most n members of T
RECURSIVE Cat(_, _)
Cat(T, n) ==
    IF n = 0 THEN {<<>>}
    ELSE LET W == Cat(T, n - 1) IN W \cup {w \o t : w \in W, t \in T}

Open == <<"@", "a", "{", "n", ",">>

\* an entry opening followed by scanner-level tokens
BodyTokens ==
    {<<"k", "=">>, <<"v">>, <<"{">>, <<"}">>, <<",">>, <<" ">>, <<"\"">>}
BodyTexts == {Open \o w : w \in Cat(BodyTokens, MaxBody)}

\* top-level texts: whitespace, stray characters and whole entries
TopTokens ==
    {<<" ">>, <<"\n">>, <<"x">>, <<"@", "A", "{", "n", ",", "}">>}
TopTexts == Cat(TopTokens, MaxLead)

\* one entry whose field list is built from whole fields and separators
FieldTokens ==
    {<<"k", "=", "v">>, <<"j", "=", "{", "w", "}">>,
     <<"k", "=", "\"", "v", "\"">>, <<",">>, <<" ">>}
FieldTexts == {Open \o w \o <<"}">> : w \in Cat(FieldTokens, MaxFieldToks)}

\* one entry whose first field is k={V}, alone or followed by another field
ValueChars == {<<"{">>, <<"}">>, <<" ">>, <<"x">>}
NestText(V, more) ==
    Open \o <<"k", "=", "{">> \o V \o <<"}">>
         \o (IF more THEN <<",", "j", "=", "{", "w", "}">> ELSE <<>>) \o <<"}">>
NestTexts == {NestText(V, more) : V \in Cat(ValueChars, MaxValLen),
                                  more \in BOOLEAN}

\* documents of well-formed entries, one per line
EntryTexts ==
    {<<"@", "a", "{", "b", ",", "k", "=", "{", "v", "}", ",",
                               "j", "=", "{", "w", "}", ",", "}">>,
     <<"@", "B", "{", "a", ",", "j", "=", "{", "w", "}", ",",
                               "k", "=", "{", "v", "}", "}">>,
     <<"@", "a", "{", "a", ",", "k", "=", "{", "w", "}", ",",
                               "k", "=", "{", "v", "}", "}">>,
     <<"@", "a", "{", "B", ",", "}">>}
SortTexts ==
    {join(<<"\n">>, d) : d \in UNION {[1..n -> EntryTexts] : n \in 0..MaxEntries}}

\* the worked examples of the documentation
Scenario1 ==
    <<"@", "a", "r", "t", "i", "c", "l", "e", "{", "d", "o", "e", "2", "0",
      "2", "4", ",", " ", "t", "i", "t", "l", "e", "=", "{", "A", " ", "S",
      "t", "u", "d", "y", "}", ",", " ", "y", "e", "a", "r", "=", "2", "0",
      "2", "4", "}">>
Scenario2 ==
    <<"@", "m", "i", "s", "c", "{", "b", ",", " ", "k", "=", "{", "1", "}",
      "}", "\n", "@", "m", "i", "s", "c", "{", "a", ",", " ", "k", "=", "{",
      "2", "}", "}">>
Scenario3 ==
    <<"@", "a", "{", "n", ",", "y", "e", "a", "r", "=", "{", "1", "}", ",",
      "a", "u", "t", "h", "o", "r", "=", "{", "2", "}", ",",
      "t", "i", "t", "l", "e", "=", "{", "3", "}", "}">>
NestedExample ==
    <<"o", "u", "t", "e", "r", " ", "{", "i", "n", "n", "e", "r", "}", " ",
      "t", "e", "x", "t">>
Scenarios ==
    {Scenario1, Scenario2, Scenario3, NestText(NestedExample, FALSE)}

Flags == {"-f", "-S"}

NoDocument == [constructed |-> FALSE, entries |-> <<>>]

\* what every run starts from, whatever the text and the flags
InitRun ==
    /\ pc = "start"
    /\ i = 0
    /\ entries = <<>>
    /\ type = <<>>
    /\ esource = <<>>
    /\ ei = 0
    /\ name = <<>>
    /\ fields = <<>>
    /\ key = <<>>
    /\ value = <<>>
    /\ document = NoDocument
    /\ stdout = <<>>
    /\ err = NoError
    /\ result = Return(<<>>, 0)
    /\ call = [fn |-> "None", start |-> 0, include_delimiters |-> FALSE]
    /\ serial = <<>>
    /\ ops = <<>>
    /\ prev = <<>>

Init ==
    /\ \/ /\ source \in BodyTexts \cup TopTexts \cup FieldTexts \cup NestTexts
          /\ argv = {}
       \/ /\ source \in SortTexts \cup Scenarios
          /\ argv \in SUBSET Flags
    /\ InitRun

-----------------------------------------------------------------------------
(* BibtexDocument.__init__ and BibtexEntry.__init__, one loop iteration per  *)
(* action.  An exception leaves document unbound and nothing printed.        *)

parser == <<i, entries, type, esource, ei, name, fields, key, value>>
harness == <<result, call, serial, ops, prev>>

\* an uncaught exception ends the process
Fail(r) ==
    /\ pc' = "error"
    /\ err' = Error(r)
    /\ UNCHANGED <<argv, source, parser, document, stdout, harness>>

\* self.entries = [] and the skip of the initial whitespace
DocStart ==
    /\ pc = "start"
    /\ entries' = <<>>
    /\ i' = skip_whitespace(source, 0)
    /\ pc' = "document"
    /\ UNCHANGED <<argv, source, type, esource, ei, name, fields, key, value,
                   document, stdout, err, harness>>

\* The document loop's body once the @ is found: the type tag, the entry body
\* and the BibtexEntry(...) call's prologue, the entry's name and the skip to
\* its first field.  (Each scan result is bound once, as the value of its
\* one-element set.)
ReadEntry ==
    \E t \in {ReadUntil(source, i + 1, BLOCK_START, <<>>)} :
       IF ~t.ok THEN Fail(t)
       ELSE \E v \in {read_next_value(source, t.i, FALSE)} :
            IF ~v.ok THEN Fail(v)
            ELSE \E n \in {ReadUntil(v.buffer, 0, LIST_SEP, <<>>)} :
                 IF ~n.ok THEN Fail(n)
                 ELSE /\ type' = strip(t.buffer)
                      /\ i' = v.i
                      /\ esource' = v.buffer
                      /\ fields' = <<>>
                      /\ name' = strip(n.buffer)
                      /\ ei' = skip_whitespace(v.buffer, n.i + 1)
                      /\ pc' = "entry"
                      /\ UNCHANGED <<argv, source, entries, key, value,
                                     document, stdout, err, harness>>

\* (mutant) a character that cannot start an entry is skipped
DocIter_SkipBadStart ==
    /\ pc = "document"
    /\ i < Len(source)
    /\ IF At(source, i) # "@"
       THEN /\ i' = skip_whitespace(source, i + 1)
            /\ UNCHANGED <<argv, source, pc, entries, type, esource, ei, name,
                           fields, key, value, document, stdout, err, harness>>
       ELSE ReadEntry

\* One pass of the document loop, up to the first pass of the field loop.
DocIter ==
    /\ pc = "document"
    /\ i < Len(source)
    /\ IF At(source, i) # "@"
       THEN Fail(Raise("SyntaxError", At(source, i), i))
       ELSE ReadEntry

\* One pass of the field loop up to the return of read_next_value.
FieldRead ==
    /\ pc = "entry"
    /\ ei < Len(esource)
    /\ \E k \in {ReadUntil(esource, ei, "=", <<>>)} :
       IF ~k.ok THEN Fail(k)
       ELSE \E v \in {read_next_value(esource,
                                      skip_whitespace(esource, k.i + 1),
                                      FALSE)} :
            IF ~v.ok THEN Fail(v)
            ELSE /\ key' = strip(k.buffer)
                 /\ value' = v.buffer
                 /\ ei' = v.i
                 /\ pc' = "value"
                 /\ UNCHANGED <<argv, source, i, entries, type, esource,
                                name, fields, document, stdout, err,
                                harness>>

\* (mutant) the separator is skipped if present, else only whitespace
FieldAdvance_SkipSeparator ==
    /\ pc = "value"
    /\ fields' = Append(fields, [key |-> key, value |-> strip(value)])
    /\ ei' = LET n == skip_whitespace(esource, ei) IN
             IF n < Len(esource) /\ At(esource, n) = LIST_SEP
             THEN skip_whitespace(esource, n + 1)
             ELSE n
    /\ pc' = "entry"
    /\ UNCHANGED <<argv, source, i, entries, type, esource, name, key, value,
                   document, stdout, err, harness>>

\* (mutant) the character after the value is not skipped
FieldAdvance_NoSkip ==
    /\ pc = "value"
    /\ fields' = Append(fields, [key |-> key, value |-> strip(value)])
    /\ ei' = skip_whitespace(esource, ei)
    /\ pc' = "entry"
    /\ UNCHANGED <<argv, source, i, entries, type, esource, name, key, value,
                   document, stdout, err, harness>>

\* The rest of the pass: skip one character, append the field, skip whitespace.
FieldAdvance ==
    /\ pc = "value"
    /\ fields' = Append(fields, [key |-> key, value |-> strip(value)])
    /\ ei' = skip_whitespace(esource, ei + 1)
    /\ pc' = "entry"
    /\ UNCHANGED <<argv, source, i, entries, type, esource, name, key, value,
                   document, stdout, err, harness>>

\* The field loop ends: the entry is appended, the document loop goes on.
EntryEnd ==
    /\ pc = "entry"
    /\ ei >= Len(esource)
    /\ entries' = Append(entries,
                         [type |-> type, name |-> name, fields |-> fields])
    /\ i' = skip_whitespace(source, i)
    /\ pc' = "document"
    /\ UNCHANGED <<argv, source, type, esource, ei, name, fields, key, value,
                   document, stdout, err, harness>>

\* The document loop ends: the constructor returns.
DocEnd ==
    /\ pc = "document"
    /\ i >= Len(source)
    /\ document' = [constructed |-> TRUE, entries |-> entries]
    /\ pc' = "parsed"
    /\ UNCHANGED <<argv, source, parser, stdout, err, harness>>

Parse == DocStart \/ DocIter \/ FieldRead \/ FieldAdvance \/ EntryEnd \/ DocEnd

-----------------------------------------------------------------------------
(* __main__ after the parse *)

MainSortFields ==
    /\ pc = "parsed"
    /\ document' = IF "-f" \in argv
                   THEN [document EXCEPT !.entries = sort_fields(@)]
                   ELSE document
    /\ pc' = "fields_done"
    /\ UNCHANGED <<argv, source, parser, stdout, err, harness>>

\* (mutant) the -S test inverted
MainSortEntries_Inverted ==
    /\ pc = "fields_done"
    /\ document' = IF "-S" \in argv
                   THEN [document EXCEPT !.entries = sort_entries(@)]
                   ELSE document
    /\ pc' = "entries_done"
    /\ UNCHANGED <<argv, source, parser, stdout, err, harness>>

MainSortEntries ==
    /\ pc = "fields_done"
    /\ document' = IF "-S" \notin argv
                   THEN [document EXCEPT !.entries = sort_entries(@)]
                   ELSE document
    /\ pc' = "entries_done"
    /\ UNCHANGED <<argv, source, parser, stdout, err, harness>>

\* print(document.to_bibtex())
MainPrint ==
    /\ pc = "entries_done"
    /\ stdout' = Append(stdout, DocumentToBibtex(document.entries) \o <<"\n">>)
    /\ pc' = "exit"
    /\ UNCHANGED <<argv, source, parser, document, err, harness>>

Next == Parse \/ MainSortFields \/ MainSortEntries \/ MainPrint

Spec == Init /\ [][Next]_vars

-----------------------------------------------------------------------------
(* The pipeline as a process that takes its next step whenever it has one *)

SpecLive == Init /\ [][Next]_vars /\ WF_vars(Next)

-----------------------------------------------------------------------------
(* Round trip: parse, serialize, parse the serialization, serialize again *)

InitRoundTrip ==
    /\ source \in BodyTexts \cup TopTexts \cup FieldTexts \cup NestTexts
                  \cup SortTexts \cup Scenarios
    /\ argv = {}
    /\ InitRun

\* document.to_bibtex() of a parsed document
Serialize ==
    /\ pc = "parsed"
    /\ serial' = Append(serial, DocumentToBibtex(document.entries))
    /\ pc' = IF serial = <<>> THEN "serialized" ELSE "reserialized"
    /\ UNCHANGED <<argv, source, parser, document, stdout, err, result, call,
                   ops, prev>>

\* BibtexDocument(text) on the text just serialized
Reparse ==
    /\ pc = "serialized"
    /\ source' = serial[1]
    /\ document' = NoDocument
    /\ pc' = "start"
    /\ UNCHANGED <<argv, parser, stdout, err, harness>>

NextRoundTrip == Parse \/ Serialize \/ Reparse

SpecRoundTrip == InitRoundTrip /\ [][NextRoundTrip]_vars

-----------------------------------------------------------------------------
(* The sort transforms applied to a parsed document in any order *)

MaxOps == 3     \* transforms applied to one document

InitSort ==
    /\ source \in SortTexts \cup Scenarios
    /\ argv = {}
    /\ InitRun

ApplySortEntries ==
    /\ pc = "parsed"
    /\ Len(ops) < MaxOps
    /\ prev' = document.entries
    /\ document' = [document EXCEPT !.entries = sort_entries(@)]
    /\ ops' = Append(ops, "sort_entries")
    /\ UNCHANGED <<argv, source, pc, parser, stdout, err, result, call, serial>>

ApplySortFields ==
    /\ pc = "parsed"
    /\ Len(ops) < MaxOps
    /\ prev' = document.entries
    /\ document' = [document EXCEPT !.entries = sort_fields(@)]
    /\ ops' = Append(ops, "sort_fields")
    /\ UNCHANGED <<argv, source, pc, parser, stdout, err, result, call, serial>>

NextSort == Parse \/ ApplySortEntries \/ ApplySortFields

SpecSort == InitSort /\ [][NextSort]_vars

-----------------------------------------------------------------------------
(* The scanner primitives called directly *)

MaxScanLen == 5     \* characters of a text handed to a scanner primitive

ScanTexts == Cat({<<"{">>, <<"}">>, <<"x">>, <<" ">>, <<"\"">>}, MaxScanLen)

InitScan ==
    /\ source \in ScanTexts
    /\ argv = {}
    /\ InitRun

CallReadNextBlock ==
    /\ pc = "start"
    /\ \E start \in 0..Len(source), include_delimiters \in BOOLEAN :
          /\ result' = read_next_block(source, start, include_delimiters)
          /\ call' = [fn |-> "read_next_block", start |-> start,
                      include_delimiters |-> include_delimiters]
    /\ pc' = "returned"
    /\ UNCHANGED <<argv, source, parser, document, stdout, err, serial, ops,
                   prev>>

CallReadNextValue ==
    /\ pc = "start"
    /\ \E start \in 0..Len(source), include_delimiters \in BOOLEAN :
          /\ result' = read_next_value(source, start, include_delimiters)
          /\ call' = [fn |-> "read_next_value", start |-> start,
                      include_delimiters |-> include_delimiters]
    /\ pc' = "returned"
    /\ UNCHANGED <<argv, source, parser, document, stdout, err, serial, ops,
                   prev>>

NextScan == CallReadNextBlock \/ CallReadNextValue

SpecScan == InitScan /\ [][NextScan]_vars

-----------------------------------------------------------------------------
(* Properties *)

\* the nesting depth after s, starting at depth d; -1 once a close has no open
RECURSIVE Nesting(_, _)
Nesting(s, d) ==
    IF d < 0 THEN -1
    ELSE IF s = <<>> THEN d
    ELSE Nesting(Tail(s), CASE Head(s) = "{" -> d + 1
                            [] Head(s) = "}" -> d - 1
                            [] OTHER -> d)

\* brace-balanced text: every close matches an earlier open, none left open
Balanced(s) == Nesting(s, 0) = 0

Finished == pc \in {"exit", "error"}

\* C1: normalization fixpoint.  Once a parsed document has been serialized,
\* parsing that serialization succeeds, and serializing the result gives the
\* same text again.
C1_NormalizationFixpoint ==
    /\ (serial # <<>> => pc # "error")
    /\ (Len(serial) = 2 => serial[2] = serial[1])

\* C2: the text @article{doe2024, title={A Study}, year=2024} parses without
\* error to one entry (article, doe2024, [title = A Study, year = 2024]),
\* which serializes to the canonical three-line form.
C2_Scenario1 ==
    source = Scenario1 =>
      /\ pc # "error"
      /\ document.constructed =>
           /\ document.entries =
                << [type |-> <<"a", "r", "t", "i", "c", "l", "e">>,
                    name |-> <<"d", "o", "e", "2", "0", "2", "4">>,
                    fields |->
                      << [key |-> <<"t", "i", "t", "l", "e">>,
                          value |-> <<"A", " ", "S", "t", "u", "d", "y">>],
                         [key |-> <<"y", "e", "a", "r">>,
                          value |-> <<"2", "0", "2", "4">>] >>] >>
           /\ DocumentToBibtex(document.entries) =
                <<"@", "a", "r", "t", "i", "c", "l", "e", "{", "d", "o", "e",
                  "2", "0", "2", "4", ",", "\n", " ", " ", "t", "i", "t", "l",
                  "e", "=", "{", "A", " ", "S", "t", "u", "d", "y", "}", ",",
                  "\n", " ", " ", "y", "e", "a", "r", "=", "{", "2", "0", "2",
                  "4", "}", "\n", "}">>

\* C7: a parse that fails does so with an explicit error of the parser (a
\* syntax error or an unterminated-block error), never by indexing the text
\* at or past its end.
C7_NoReadPastEnd ==
    pc = "error" => /\ err.kind \in {"SyntaxError", "UnterminatedBlock"}
                    /\ err.kind # "IndexError"

\* C8: read_next_block on a brace-balanced block returns the text strictly
\* between the opening delimiter and its matching close, nested delimiters
\* included, and the index just after that close, whether include_delimiters
\* is set or not.
C8_OutermostPairExcluded ==
    (pc = "returned" /\ call.fn = "read_next_block") =>
      LET n == skip_whitespace(source, call.start) IN
      \A m \in (n + 1)..(Len(source) - 1) :
         ( /\ At(source, n) = BLOCK_START
           /\ At(source, m) = BLOCK_END
           /\ Balanced(SubSeq(source, n + 2, m)) )
         => result = Return(SubSeq(source, n + 2, m), m + 1)

\* the fields of an entry as a bag: what a reordering keeps
FieldBag(e) == [f \in {e.fields[k] : k \in 1..Len(e.fields)} |->
                   Cardinality({k \in 1..Len(e.fields) : e.fields[k] = f})]

\* the same entry, up to the order of its fields
SameEntry(a, b) ==
    a.type = b.type /\ a.name = b.name /\ FieldBag(a) = FieldBag(b)

\* C3: what is printed is the serialization of the parsed entries, each once:
\* in non-decreasing order of name with equal names in source order when
\* entries are sorted (no -S), in source order when they are not (-S).
C3_EntryOrder ==
    pc = "exit" =>
      LET out == document.entries
          n == Len(entries)
      IN /\ stdout = <<DocumentToBibtex(out) \o <<"\n">>>>
         /\ Len(out) = n
         /\ \E p \in Permutations(1..n) :
               /\ \A k \in 1..n :
                     /\ SameEntry(out[k], entries[p[k]])
                     /\ "-f" \notin argv => out[k] = entries[p[k]]
               /\ IF "-S" \in argv
                  THEN \A k \in 1..n : p[k] = k
                  ELSE \A k, l \in 1..n :
                          k < l => /\ ~StrLess(out[l].name, out[k].name)
                                   /\ out[k].name = out[l].name => p[k] < p[l]

\* C3 case reached: sorting moved an entry and kept two entries of equal
\* name and different content in source order
C3_Reordered ==
    /\ pc = "exit"
    /\ "-S" \notin argv
    /\ document.entries # entries
    /\ \E k, l \in 1..Len(entries) :
          /\ k < l
          /\ entries[k].name = entries[l].name
          /\ entries[k] # entries[l]

\* the entries as a bag, each entry up to the order of its fields
EntryBag(es) ==
    LET view(e) == [type |-> e.type, name |-> e.name, fields |-> FieldBag(e)]
    IN [v \in {view(es[k]) : k \in 1..Len(es)} |->
           Cardinality({k \in 1..Len(es) : view(es[k]) = v})]

\* C4: a sort applied twice in a row changes nothing the second time; the
\* order sort_fields gives an entry depends on that entry alone, so the two
\* sorts commute; and no sort changes an entry's type, name or bag of fields.
C4_SortsIdempotentCommute ==
    LET n == Len(ops)
        cur == document.entries
    IN /\ (n >= 2 /\ ops[n] = ops[n - 1]) => cur = prev
       /\ n >= 1 => /\ Len(cur) = Len(entries)
                    /\ EntryBag(cur) = EntryBag(entries)
       /\ (n >= 1 /\ ops[n] = "sort_fields") =>
             /\ Len(cur) = Len(prev)
             /\ \A k \in 1..Len(cur) :
                   cur[k] = sort_fields(<<prev[k]>>)[1]
       /\ ops = <<"sort_fields", "sort_entries">> =>
             cur = sort_fields(sort_entries(entries))
       /\ ops = <<"sort_entries", "sort_fields">> =>
             cur = sort_entries(sort_fields(entries))

\* C4 case reached: the same sort twice, on a document the sort reorders
C4_SortedTwice ==
    /\ Len(ops) = 2
    /\ ops[1] = ops[2]
    /\ document.entries # entries
    /\ \E k \in 1..Len(entries) :
          \E a, b \in 1..Len(entries[k].fields) :
             a < b /\ entries[k].fields[a].key = entries[k].fields[b].key

\* the brace-balanced values of the nested-value texts
NestValues ==
    {V \in Cat(ValueChars, MaxValLen) \cup {NestedExample} : Balanced(V)}

KeyOpen == <<"k", "=", "{">>

\* C5 as stated: a field written k={V}, V brace-balanced, parses to V with
\* the surrounding whitespace stripped and serializes back to k={V}.
C5_NestedVerbatim ==
    source \in NestTexts \cup Scenarios =>
    \A V \in NestValues, more \in BOOLEAN :
       source = NestText(V, more) =>
         /\ pc # "error"
         /\ document.constructed =>
              LET f == document.entries[1].fields[1] IN
              /\ f.value = strip(V)
              /\ FieldToBibtex(f) = KeyOpen \o V \o <<"}">>

\* C5 amended: the field serializes back to k={V'} where V' is V with the
\* surrounding whitespace stripped, every interior brace kept in place.
C5_NestedStripped ==
    source \in NestTexts \cup Scenarios =>
    \A V \in NestValues, more \in BOOLEAN :
       source = NestText(V, more) =>
         /\ pc # "error"
         /\ document.constructed =>
              LET f == document.entries[1].fields[1] IN
              /\ f = [key |-> <<"k">>, value |-> strip(V)]
              /\ FieldToBibtex(f) = KeyOpen \o strip(V) \o <<"}">>
              /\ strip(V) = V => FieldToBibtex(f) = KeyOpen \o V \o <<"}">>
         /\ pc = "exit" =>
              stdout = << <<"@", "a", "{", "n">> \o FieldSep
                            \o KeyOpen \o strip(V) \o <<"}">>
                            \o (IF more
                                THEN FieldSep \o <<"j", "=", "{", "w", "}">>
                                ELSE <<>>)
                            \o <<"\n", "}", "\n">> >>

\* C5 case reached: a value with nested braces and surrounding whitespace
\* has been parsed and printed
C5_NestedPrinted ==
    /\ pc = "exit"
    /\ \E V \in NestValues :
          /\ source = NestText(V, FALSE)
          /\ \E k \in 1..Len(V) : V[k] = "{"
          /\ strip(V) # V

\* C6: when the document loop finds, before the end of the text, a character
\* other than @ where an entry must start, the run ends there with a
\* SyntaxError naming that character; no document is bound and nothing is
\* printed, then or later.
C6_MalformedStartFatal ==
    /\ [][ (pc = "document" /\ i < Len(source) /\ At(source, i) # "@") =>
             /\ pc' = "error"
             /\ err' = [kind |-> "SyntaxError", char |-> At(source, i),
                        at |-> i]
             /\ document' = NoDocument
             /\ stdout' = <<>> ]_vars
    /\ [][pc = "error" => pc' = "error"]_vars
    /\ [](pc = "error" => document = NoDocument /\ stdout = <<>>)

\* C6 case reached: a bad entry start after a completed entry
C6_FailedAfterEntry ==
    /\ pc = "error"
    /\ err.kind = "SyntaxError"
    /\ entries # <<>>

\* C9: after a field's value the cursor moves on by exactly one character and
\* then over whitespace.  A comma right after the value is consumed; when
\* whitespace separates the value from the comma the cursor stops on the
\* comma, which then opens the next field's key.
C9_SkipsOneCharacter ==
    [][ /\ pc = "value" =>
             /\ pc' = "entry"
             /\ ei' >= ei + 1
             /\ \A n \in (ei + 1)..(ei' - 1) : isspace(At(esource, n))
             /\ ei' < Len(esource) => ~isspace(At(esource, ei'))
             /\ \A q \in (ei + 1)..(Len(esource) - 1) :
                   ( /\ At(esource, q) = LIST_SEP
                     /\ \A n \in ei..(q - 1) : isspace(At(esource, n)) )
                   => ei' = q
        /\ ( /\ pc = "entry" /\ pc' = "value"
             /\ ei < Len(esource) /\ At(esource, ei) = LIST_SEP )
           => (key' # <<>> /\ Head(key') = LIST_SEP) ]_vars

\* C9 case reached: the bare token v was followed by a space and a comma,
\* and the next field's key starts with that comma
C9_CommaInKey ==
    /\ pc = "value"
    /\ Len(esource) >= 7
    /\ SubSeq(esource, 1, 7) = <<"n", ",", "k", "=", "v", " ", ",">>
    /\ fields = << [key |-> <<"k">>, value |-> <<"v">>] >>
    /\ key # <<>> /\ Head(key) = LIST_SEP

\* C10: every pass of the document loop and of the field loop moves its
\* cursor forward, the cursors stay within one step of the end of their
\* text, at most one step is possible in any state, and the constructor
\* eventually returns a document or raises.
C10_ParsingTerminates ==
    /\ [][ /\ (pc = "document" /\ pc' = "entry") => i' > i
           /\ (pc = "entry" /\ pc' = "document") => i' >= i
           /\ (pc = "entry" /\ pc' = "value") => ei' > ei
           /\ (pc = "value" /\ pc' = "entry") => ei' > ei ]_vars
    /\ [](i <= Len(source) /\ ei <= Len(esource) + 1)
    /\ [](LET en == <<ENABLED DocStart, ENABLED DocIter, ENABLED FieldRead,
                      ENABLED FieldAdvance, ENABLED EntryEnd, ENABLED DocEnd,
                      ENABLED MainSortFields, ENABLED MainSortEntries,
                      ENABLED MainPrint>>
          IN Cardinality({k \in 1..Len(en) : en[k]}) <= 1)
    /\ <>(document.constructed \/ pc = "error")

\* C10 case reached: the constructor has returned after several passes of
\* the document loop and of the field loop
C10_ParsedSeveral ==
    /\ pc = "parsed"
    /\ Len(document.entries) >= 2
    /\ \A k \in 1..Len(document.entries) : document.entries[k].fields # <<>>

====
